---- MODULE Spec2Model ----
(***************************************************************************)
(* Model of the RepoSync orchestrator (services/orchestrator/main.go) and  *)
(* of the collaborators it calls: the GitHub change detector, the chunker, *)
(* the embedding service, the vector index, the metadata (checkpoint)      *)
(* store and the notifier.  One SyncProject run is a sequence of steps of  *)
(* the main goroutine plus the worker goroutines of processBatch.          *)
(***************************************************************************)
EXTENDS Integers, Sequences, FiniteSets, TLC

\* ------------------------------------------------------------------ bounds
MaxRuns == 2
MaxCommits == 1
MaxChunks == 2
MaxFaults == 2
MaxW == 3
MaxReqs == 2
MaxText == 4
MaxChunkSize == 3
MaxOverlap == 1
MaxIter == 6
MaxStoreOps == 3
MaxProbeFiles == 3

\* ------------------------------------------------------- the source world
\* Two repositories; r1 holds three files, r2 one.
Repos == <<"r1", "r2">>
Files == {"a", "b", "x", "c"}
FileOrder == <<"a", "b", "x", "c">>
RepoOf(f) == IF f = "c" THEN "r2" ELSE "r1"

\* Paths are sequences of characters; ".m" stands for an allowed extension
\* and "n/" for an excluded directory prefix.
PathOf(f) ==
  CASE f = "a" -> <<"a", ".", "m">>
    [] f = "b" -> <<"b", ".", "m">>
    [] f = "x" -> <<"n", "/", "x", ".", "m">>
    [] OTHER   -> <<"c", ".", "m">>

AllowedExtensions == << <<".", "m">>, <<".", "t">> >>
ExcludePatterns == << <<"n", "/">>, <<".", "g">> >>

NoSHA == 0

VARIABLES
  head,            \* head[r]: revision number of repository r's default branch
  hist,            \* hist[f]: the commits that touched f, <<[sha, size]>>, size -1 = removed
  commits,         \* number of commits made after Init
  store,           \* checkpoint store: store[f] is the sync_metadata row of f
  index,           \* vector index: set of chunk identifiers <<f, ordinal>>
  maxWorkers,      \* config.Processing.MaxWorkers
  pc,              \* position of the main goroutine of SyncProject
  runNo,           \* number of SyncProject invocations so far
  incremental,     \* the run's incremental argument
  repoIdx,         \* loop index over the discovered repositories
  lastCommitSHA,   \* marker read for the repository being diffed
  allChangedFiles, \* SyncProject's allChangedFiles
  validFiles,      \* SyncProject's validFiles
  batchI,          \* processFiles' loop index i (0-based)
  batch,           \* the files of the batch in flight
  wpc,             \* wpc[k]: position of worker k of the batch
  wdocs,           \* wdocs[k]: documents worker k got from the chunker
  mu,              \* holder of processBatch's mutex, 0 = free
  batchEmb,        \* processBatch's allEmbeddings
  batchChunks,     \* processBatch's totalChunks
  allEmbeddings,   \* processFiles' allEmbeddings
  totalChunks,     \* processFiles' totalChunks
  saveIdx,         \* loop index of the metadata update loop
  result,          \* the SyncResult
  retErr,          \* the error SyncProject returns
  notifType,       \* classification handed to sendNotification
  notified,        \* notifier calls of this run, in order
  response,        \* what handleSync wrote for the request: status and body
  calls,           \* collaborator calls of this run, by kind
  faults,          \* collaborator failures and cancellations injected so far
  hst,             \* what happened to each file in this run (history)
  prev,            \* summary of the previous run (history)
  dirty,           \* a commit happened since the last run started
  srcChanged,      \* a commit happened between the previous run and this one
  reqs,            \* reqs[i]: the i-th of the handleSync requests served at the same time
  probe,           \* one call of a library function: its arguments and what it returned
  rows             \* the sync_metadata table of the metadata service, as the requests see it

world == <<head, hist, commits, store, index, maxWorkers>>
main == <<pc, runNo, incremental, repoIdx, lastCommitSHA, allChangedFiles, validFiles,
          batchI, saveIdx, result, retErr, notifType, notified, response>>
pool == <<batch, wpc, wdocs, mu, batchEmb, batchChunks, allEmbeddings, totalChunks>>
ghost == <<calls, faults, hst, prev, dirty, srcChanged>>
side == <<reqs, probe, rows>>
vars == <<world, main, pool, ghost, side>>

\* ---------------------------------------------------------------- helpers
Min(a, b) == IF a < b THEN a ELSE b

SeqToSet(s) == {s[i] : i \in 1..Len(s)}

RECURSIVE SumSeq(_)
SumSeq(s) == IF s = <<>> THEN 0 ELSE Head(s) + SumSeq(Tail(s))

\* s[i:j] of Go, 0-based, half open
Slice(s, i, j) == SubSeq(s, i + 1, j)

\* ------------------------------------------------- data model (pkg/models)
NoEntry == [sha |-> NoSHA, count |-> 0, status |-> "none", at |-> 0]

FileChange(f, sha, size, kind) ==
  [file |-> f, sha |-> sha, size |-> size, kind |-> kind]

EmptyResult ==
  [RepositoriesScanned |-> 0, FilesDiscovered |-> 0, FilesChanged |-> 0,
   FilesProcessed |-> 0, ChunksCreated |-> 0, EmbeddingsGenerated |-> 0,
   VectorsUpserted |-> 0, Errors |-> <<>>, Warnings |-> <<>>,
   Success |-> FALSE, EndTimeSet |-> FALSE]

\* Nothing has been written to the ResponseWriter.
NoResponse == [status |-> 0, hasBody |-> FALSE, body |-> EmptyResult]

NoCalls ==
  [discover |-> 0, lookup |-> 0, diff |-> 0, chunk |-> 0, embed |-> 0,
   upsert |-> 0, save |-> 0, notify |-> 0]

NoMarkers == [r \in SeqToSet(Repos) |-> NoSHA]

NoHistory ==
  [chunkFailed |-> {}, embedFailed |-> {}, embedded |-> {}, payload |-> {},
   written |-> {}, saveAsked |-> {}, saved |-> {}, discoverFailed |-> FALSE,
   diffFailed |-> {}, upsertFailed |-> FALSE, markers |-> NoMarkers,
   storeAtStart |-> [f \in Files |-> NoEntry], handled |-> {}, faultsAtStart |-> 0,
   ctxDone |-> FALSE, lateStarts |-> {}]

NoPrev ==
  [ran |-> FALSE, incremental |-> FALSE, clean |-> FALSE, upsertFailed |-> FALSE,
   batchFiles |-> {}, markers |-> NoMarkers]

\* No handleSync request is being served.
NoReqs ==
  [i \in 1..MaxReqs |-> [pc |-> "idle", project |-> "", incremental |-> FALSE, files |-> <<>>,
                         idx |-> 0, namespace |-> "", success |-> FALSE]]

\* No library call has been made.
NoProbe == [op |-> "none"]

\* ------------------------------------------- GitHub service (change detector)
\* Content of f at revision v, as the number of chunks it yields; -1 = absent.
SizeAt(f, v) ==
  LET evs == {i \in 1..Len(hist[f]) : hist[f][i].sha <= v}
  IN IF evs = {} THEN -1
     ELSE hist[f][CHOOSE i \in evs : \A j \in evs : j <= i].size

Touched(f, a, b) == \E i \in 1..Len(hist[f]) : a < hist[f][i].sha /\ hist[f][i].sha <= b

FilesOfRepo(r) == SelectSeq(FileOrder, LAMBDA f : RepoOf(f) = r)

\* getAllFiles: every blob of the tree whose content could be fetched.
getAllFiles(r, lost) ==
  LET listed == SelectSeq(FilesOfRepo(r), LAMBDA f : SizeAt(f, head[r]) >= 0 /\ f \notin lost)
  IN [i \in 1..Len(listed) |->
        FileChange(listed[i], head[r], SizeAt(listed[i], head[r]), "added")]

\* The files GitHub's comparison of last..head lists, with their status.
CompareStatus(f, last, latest) ==
  IF SizeAt(f, latest) < 0 THEN "removed"
  ELSE IF SizeAt(f, last) < 0 THEN "added" ELSE "modified"

CompareCommits(r, last) ==
  SelectSeq(FilesOfRepo(r),
            LAMBDA f : /\ Touched(f, last, head[r])
                       /\ (SizeAt(f, last) >= 0 \/ SizeAt(f, head[r]) >= 0))

\* GetChangedFiles: the full listing without a marker, else the comparison;
\* removed files are listed without content, files whose content cannot be
\* fetched (lost) are skipped.
GetChangedFiles(r, last, lost) ==
  IF last = NoSHA THEN getAllFiles(r, lost)
  ELSE LET cmp == CompareCommits(r, last)
           kept == SelectSeq(cmp, LAMBDA f :
                      CompareStatus(f, last, head[r]) = "removed" \/ f \notin lost)
       IN [i \in 1..Len(kept) |->
             LET st == CompareStatus(kept[i], last, head[r])
             IN FileChange(kept[i], head[r],
                           IF st = "removed" THEN 0 ELSE SizeAt(kept[i], head[r]), st)]

\* The files whose content fetch can fail in a diff of r.
Fetchable(r, last) ==
  IF last = NoSHA
    THEN {f \in Files : RepoOf(f) = r /\ SizeAt(f, head[r]) >= 0}
    ELSE {f \in SeqToSet(CompareCommits(r, last)) : SizeAt(f, head[r]) >= 0}

\* ------------------------------------------------------------ content filter
HasSuffix(path, ext) ==
  Len(path) >= Len(ext) /\ SubSeq(path, Len(path) - Len(ext) + 1, Len(path)) = ext

\* the orchestrator's contains helper: compares the first len(substr) bytes
contains(s, substr) ==
  Len(s) >= Len(substr) /\ SubSeq(s, 1, Len(substr)) = substr

\* The decision of filterFiles about one record, for given lists; the change
\* type of the record is not read.
filterKeepsFor(path, allowed, exclude) ==
  /\ \E i \in 1..Len(allowed) : HasSuffix(path, allowed[i])
  /\ ~ \E i \in 1..Len(exclude) : contains(path, exclude[i])

filterKeeps(path) == filterKeepsFor(path, AllowedExtensions, ExcludePatterns)

filterFiles(files) == SelectSeq(files, LAMBDA fc : filterKeeps(PathOf(fc.file)))

\* ------------------------------------------------------------------ chunker
\* ChunkDocument: one document per chunk, identified by (repository, path, ordinal).
ChunkDocument(fc) == [i \in 1..fc.size |-> <<fc.file, i - 1>>]

\* --------------------------------------------------- metadata (checkpoint) store
\* SaveSyncMetadata: insert, or replace the row of the same key.
SaveSyncMetadata(st, md) ==
  [st EXCEPT ![md.file] = [sha |-> md.sha, count |-> md.count, status |-> md.status, at |-> md.at]]

\* What the repository-level marker query can answer: nothing (not found, or
\* any failure of the call, which the caller drops), or the marker of a row
\* of that repository.
LookupOutcomes(r) ==
  {NoSHA} \cup {store[f].sha : f \in {g \in Files : RepoOf(g) = r /\ store[g].status # "none"}}

\* The sync_metadata table as the set of its rows (the autoincrement id is
\* left out); the UNIQUE constraint is on (project_id, repository, file_path).
KeyOf(row) == <<row.project, row.repository, row.path>>

\* Faulty variant of SaveSyncMetadataRow, used to test the properties below: a
\* plain INSERT without the ON CONFLICT clause and without the constraint.
SaveSyncMetadataInsertOnly(tbl, md) == tbl \cup {md}

\* SaveSyncMetadata on the table: INSERT ... ON CONFLICT(key) DO UPDATE SET
\* last_commit_sha, last_synced_at, embedding_count, status.
SaveSyncMetadataRow(tbl, md) ==
  {row \in tbl : KeyOf(row) # KeyOf(md)} \cup {md}

\* The answer of GetSyncMetadata when no row matches (sql.ErrNoRows).
NotFound == [found |-> FALSE]

\* GetSyncMetadata: the row of the key, or NotFound.
GetSyncMetadata(tbl, key) ==
  IF \E row \in tbl : KeyOf(row) = key
    THEN [found |-> TRUE, row |-> CHOOSE row \in tbl : KeyOf(row) = key]
    ELSE NotFound

\* DeleteSyncMetadata: DELETE ... WHERE the key matches.
DeleteSyncMetadata(tbl, key) == {row \in tbl : KeyOf(row) # key}

\* What the marker query of a project and repository can answer on the table.
LookupOutcomesOf(tbl, project, r) ==
  {NoSHA} \cup {row.sha : row \in {w \in tbl : w.project = project /\ w.repository = r}}


\* --------------------------------------------------------------------- Init
\* The state after NewOrchestrator, before any request.
InitRun ==
  /\ head = [r \in SeqToSet(Repos) |-> 1]
  /\ hist = [f \in Files |-> << [sha |-> 1, size |-> IF f = "a" THEN 2 ELSE 1] >>]
  /\ commits = 0
  /\ store = [f \in Files |-> NoEntry]
  /\ index = {}
  /\ maxWorkers \in 1..MaxW
  /\ pc = "idle"
  /\ runNo = 0
  /\ incremental = FALSE
  /\ repoIdx = 0
  /\ lastCommitSHA = NoSHA
  /\ allChangedFiles = <<>>
  /\ validFiles = <<>>
  /\ batchI = 0
  /\ batch = <<>>
  /\ wpc = <<>>
  /\ wdocs = <<>>
  /\ mu = 0
  /\ batchEmb = <<>>
  /\ batchChunks = 0
  /\ allEmbeddings = <<>>
  /\ totalChunks = 0
  /\ saveIdx = 0
  /\ result = EmptyResult
  /\ retErr = "none"
  /\ notifType = "none"
  /\ notified = <<>>
  /\ response = NoResponse
  /\ calls = NoCalls
  /\ faults = 0
  /\ hst = NoHistory
  /\ prev = NoPrev
  /\ dirty = FALSE
  /\ srcChanged = FALSE

Init ==
  /\ InitRun
  /\ reqs = NoReqs
  /\ probe = NoProbe
  /\ rows = {}

\* ------------------------------------------------------------ environment
\* A push to a repository between two runs: f is written with content of sz
\* chunks (0 = empty content), or removed (sz = -1).
Commit(f, sz) ==
  /\ pc = "idle"
  /\ runNo > 0
  /\ commits < MaxCommits
  /\ sz = -1 => SizeAt(f, head[RepoOf(f)]) >= 0
  /\ commits' = commits + 1
  /\ head' = [head EXCEPT ![RepoOf(f)] = @ + 1]
  /\ hist' = [hist EXCEPT ![f] = Append(@, [sha |-> head[RepoOf(f)] + 1, size |-> sz])]
  /\ dirty' = TRUE
  /\ UNCHANGED <<store, index, maxWorkers, main, pool, calls, faults, hst, prev, srcChanged>>
  /\ UNCHANGED side

\* The request's context is cancelled (the client went away) while SyncProject
\* runs.  No statement of the orchestrator reads ctx, so nothing else changes.
Cancel ==
  /\ pc \in {"discover", "lookup", "diff", "filter", "process", "wait", "upsert", "save", "notify"}
  /\ ~hst.ctxDone
  /\ faults < MaxFaults
  /\ faults' = faults + 1
  /\ hst' = [hst EXCEPT !.ctxDone = TRUE]
  /\ UNCHANGED <<world, main, pool, calls, prev, dirty, srcChanged, side>>

\* --------------------------------------------------- SyncProject, main goroutine
PrevOf ==
  [ran |-> TRUE, incremental |-> incremental, clean |-> (faults = hst.faultsAtStart),
   upsertFailed |-> hst.upsertFailed,
   batchFiles |-> IF hst.upsertFailed THEN hst.payload ELSE {},
   markers |-> IF hst.upsertFailed THEN hst.markers ELSE NoMarkers]

\* handleSync calls SyncProject: the result is created with Success = false.
StartRun(inc) ==
  /\ pc = "idle"
  /\ runNo < MaxRuns
  /\ runNo' = runNo + 1
  /\ incremental' = inc
  /\ result' = EmptyResult
  /\ pc' = "discover"
  /\ repoIdx' = 0
  /\ lastCommitSHA' = NoSHA
  /\ allChangedFiles' = <<>>
  /\ validFiles' = <<>>
  /\ batchI' = 0
  /\ saveIdx' = 0
  /\ retErr' = "none"
  /\ notifType' = "none"
  /\ notified' = <<>>
  /\ allEmbeddings' = <<>>
  /\ totalChunks' = 0
  /\ calls' = NoCalls
  /\ hst' = [NoHistory EXCEPT !.storeAtStart = store, !.faultsAtStart = faults]
  /\ srcChanged' = dirty
  /\ dirty' = FALSE
  /\ response' = NoResponse
  /\ UNCHANGED <<world, batch, wpc, wdocs, mu, batchEmb, batchChunks, faults, prev>>
  /\ UNCHANGED side

\* Faulty variant of FailRun, used to test the properties below: the early return forgets the notification.
FailRunNoNotify(kind) ==
  /\ result' = [result EXCEPT !.Errors = Append(@, kind)]
  /\ notifType' = "error"
  /\ retErr' = kind
  /\ pc' = "done"

\* The fatal path of SyncProject: the error is appended to result.Errors, an
\* error notification is sent and the error is returned.
FailRun(kind) ==
  /\ result' = [result EXCEPT !.Errors = Append(@, kind)]
  /\ notifType' = "error"
  /\ retErr' = kind
  /\ pc' = "notify"

\* Faulty variant of DiscoverError, used to test the properties below: the failure is only a warning and the run goes on
\* with no repositories.
DiscoverErrorNoReturn ==
  /\ faults < MaxFaults
  /\ faults' = faults + 1
  /\ result' = [result EXCEPT !.Warnings = Append(@, [kind |-> "discover", ref |-> "none"])]
  /\ hst' = [hst EXCEPT !.discoverFailed = TRUE]
  /\ pc' = "filter"
  /\ UNCHANGED <<repoIdx, retErr, notifType>>

\* discoverRepositories failed: the run ends on the fatal path.
DiscoverError ==
  /\ faults < MaxFaults
  /\ faults' = faults + 1
  /\ FailRun("discover")
  /\ hst' = [hst EXCEPT !.discoverFailed = TRUE]
  /\ UNCHANGED repoIdx

\* Step 1: discoverRepositories.
Discover ==
  /\ pc = "discover"
  /\ calls' = [calls EXCEPT !.discover = @ + 1]
  /\ \/ /\ result' = [result EXCEPT !.RepositoriesScanned = Len(Repos)]
        /\ repoIdx' = 1
        /\ pc' = IF Len(Repos) >= 1 THEN "lookup" ELSE "filter"
        /\ UNCHANGED <<retErr, notifType, faults, hst>>
     \/ DiscoverError
  /\ UNCHANGED <<world, runNo, incremental, lastCommitSHA, allChangedFiles, validFiles,
                 batchI, saveIdx, notified, response, pool, prev, dirty, srcChanged>>
  /\ UNCHANGED side

\* Faulty variant of GetLastCommitSHA, used to test the properties below: the
\* marker is read whether or not the run is incremental.
GetLastCommitSHAAlways ==
  /\ pc = "lookup"
  /\ LET r == Repos[repoIdx] IN
       \E m \in LookupOutcomes(r) :
         /\ lastCommitSHA' = m
         /\ calls' = [calls EXCEPT !.lookup = @ + 1]
         /\ hst' = [hst EXCEPT !.markers[r] = m]
  /\ pc' = "diff"
  /\ UNCHANGED <<world, runNo, incremental, repoIdx, allChangedFiles, validFiles, batchI,
                 saveIdx, result, retErr, notifType, notified, response, pool, faults, prev,
                 dirty, srcChanged>>
  /\ UNCHANGED side

\* Step 2, first half: the marker of the repository, read only when incremental;
\* the error of getLastCommitSHA is dropped and leaves the empty marker.
GetLastCommitSHA ==
  /\ pc = "lookup"
  /\ LET r == Repos[repoIdx] IN
       IF incremental
         THEN \E m \in LookupOutcomes(r) :
                /\ lastCommitSHA' = m
                /\ calls' = [calls EXCEPT !.lookup = @ + 1]
                /\ hst' = [hst EXCEPT !.markers[r] = m]
         ELSE /\ lastCommitSHA' = NoSHA
              /\ UNCHANGED <<calls, hst>>
  /\ pc' = "diff"
  /\ UNCHANGED <<world, runNo, incremental, repoIdx, allChangedFiles, validFiles, batchI,
                 saveIdx, result, retErr, notifType, notified, response, pool, faults, prev,
                 dirty, srcChanged>>
  /\ UNCHANGED side

\* Faulty variant of DiffError, used to test the properties below: a diff failure ends the run on the fatal path.
DiffErrorFatal(r) ==
  /\ faults < MaxFaults
  /\ faults' = faults + 1
  /\ FailRun("diff")
  /\ hst' = [hst EXCEPT !.diffFailed = @ \cup {r}]
  /\ UNCHANGED <<allChangedFiles, repoIdx>>

\* getChangedFiles failed for r: a warning, and the loop continues.
DiffError(r) ==
  /\ faults < MaxFaults
  /\ faults' = faults + 1
  /\ result' = [result EXCEPT !.Warnings = Append(@, [kind |-> "diff", ref |-> r])]
  /\ hst' = [hst EXCEPT !.diffFailed = @ \cup {r}]
  /\ repoIdx' = repoIdx + 1
  /\ pc' = IF repoIdx < Len(Repos) THEN "lookup" ELSE "filter"
  /\ UNCHANGED <<allChangedFiles, retErr, notifType>>

\* Step 2, second half: getChangedFiles for the repository.
GetChangedFilesStep ==
  /\ pc = "diff"
  /\ calls' = [calls EXCEPT !.diff = @ + 1]
  /\ LET r == Repos[repoIdx] IN
       \/ \E lost \in SUBSET Fetchable(r, lastCommitSHA) :
            /\ faults + Cardinality(lost) <= MaxFaults
            /\ faults' = faults + Cardinality(lost)
            /\ allChangedFiles' = allChangedFiles \o GetChangedFiles(r, lastCommitSHA, lost)
            /\ repoIdx' = repoIdx + 1
            /\ pc' = IF repoIdx < Len(Repos) THEN "lookup" ELSE "filter"
            /\ UNCHANGED <<result, hst, retErr, notifType>>
       \/ DiffError(r)
  /\ UNCHANGED <<world, runNo, incremental, lastCommitSHA, validFiles, batchI, saveIdx,
                 notified, response, pool, prev, dirty, srcChanged>>
  /\ UNCHANGED side

\* Step 3: the counters of the discovered files and the content filter.
FilterStep ==
  /\ pc = "filter"
  /\ validFiles' = filterFiles(allChangedFiles)
  /\ result' = [result EXCEPT !.FilesDiscovered = Len(allChangedFiles),
                              !.FilesChanged = Len(allChangedFiles),
                              !.FilesProcessed = Len(filterFiles(allChangedFiles))]
  /\ hst' = [hst EXCEPT !.handled = {fc.file : fc \in SeqToSet(filterFiles(allChangedFiles))}]
  /\ batchI' = 0
  /\ allEmbeddings' = <<>>
  /\ totalChunks' = 0
  /\ pc' = "process"
  /\ UNCHANGED <<world, runNo, incremental, repoIdx, lastCommitSHA, allChangedFiles, saveIdx,
                 retErr, notifType, notified, response, batch, wpc, wdocs, mu, batchEmb, batchChunks,
                 calls, faults, prev, dirty, srcChanged>>
  /\ UNCHANGED side


\* ------------------------------------------------ processFiles / processBatch
\* Faulty variant of StartBatch, used to test the properties below: one goroutine
\* is started for every remaining file, whatever MaxWorkers is.
StartBatchUnbounded ==
  /\ pc = "process"
  /\ batchI < Len(validFiles)
  /\ LET end == Len(validFiles)
         b == Slice(validFiles, batchI, end)
     IN /\ batch' = b
        /\ wpc' = [k \in 1..Len(b) |-> "chunk"]
        /\ wdocs' = [k \in 1..Len(b) |-> <<>>]
  /\ mu' = 0
  /\ batchEmb' = <<>>
  /\ batchChunks' = 0
  /\ pc' = "wait"
  /\ hst' = IF hst.ctxDone
              THEN [hst EXCEPT !.lateStarts = @ \cup
                      {validFiles[i].file : i \in (batchI + 1)..Min(batchI + maxWorkers, Len(validFiles))}]
              ELSE hst
  /\ UNCHANGED <<world, runNo, incremental, repoIdx, lastCommitSHA, allChangedFiles,
                 validFiles, batchI, saveIdx, result, retErr, notifType, notified, response,
                 allEmbeddings, totalChunks, calls, faults, prev, dirty, srcChanged>>
  /\ UNCHANGED side

\* processFiles, loop head: the next batch of at most MaxWorkers files; one
\* goroutine is started for every file of the batch.
StartBatch ==
  /\ pc = "process"
  /\ batchI < Len(validFiles)
  /\ LET end == Min(batchI + maxWorkers, Len(validFiles))
         b == Slice(validFiles, batchI, end)
     IN /\ batch' = b
        /\ wpc' = [k \in 1..Len(b) |-> "chunk"]
        /\ wdocs' = [k \in 1..Len(b) |-> <<>>]
  /\ mu' = 0
  /\ batchEmb' = <<>>
  /\ batchChunks' = 0
  /\ pc' = "wait"
  /\ hst' = IF hst.ctxDone
              THEN [hst EXCEPT !.lateStarts = @ \cup
                      {validFiles[i].file : i \in (batchI + 1)..Min(batchI + maxWorkers, Len(validFiles))}]
              ELSE hst
  /\ UNCHANGED <<world, runNo, incremental, repoIdx, lastCommitSHA, allChangedFiles,
                 validFiles, batchI, saveIdx, result, retErr, notifType, notified, response,
                 allEmbeddings, totalChunks, calls, faults, prev, dirty, srcChanged>>
  /\ UNCHANGED side

\* Faulty variant of WorkerChunk, used to test the properties below: the worker
\* takes the mutex before its chunkDocument call and keeps it.
WorkerChunkUnderLock(k) ==
  /\ pc = "wait"
  /\ k \in DOMAIN wpc
  /\ wpc[k] = "chunk"
  /\ mu = 0
  /\ mu' = k
  /\ calls' = [calls EXCEPT !.chunk = @ + 1]
  /\ \/ /\ wdocs' = [wdocs EXCEPT ![k] = ChunkDocument(batch[k])]
        /\ wpc' = [wpc EXCEPT ![k] = "embed"]
        /\ UNCHANGED <<faults, hst>>
     \/ /\ faults < MaxFaults
        /\ faults' = faults + 1
        /\ wpc' = [wpc EXCEPT ![k] = "done"]
        /\ hst' = [hst EXCEPT !.chunkFailed = @ \cup {batch[k].file}]
        /\ UNCHANGED wdocs
  /\ UNCHANGED <<world, main, batch, batchEmb, batchChunks, allEmbeddings, totalChunks,
                 prev, dirty, srcChanged>>
  /\ UNCHANGED side

\* Worker k: chunkDocument; on failure the goroutine logs and returns.
WorkerChunk(k) ==
  /\ pc = "wait"
  /\ k \in DOMAIN wpc
  /\ wpc[k] = "chunk"
  /\ calls' = [calls EXCEPT !.chunk = @ + 1]
  /\ \/ /\ wdocs' = [wdocs EXCEPT ![k] = ChunkDocument(batch[k])]
        /\ wpc' = [wpc EXCEPT ![k] = "embed"]
        /\ UNCHANGED <<faults, hst>>
     \/ /\ faults < MaxFaults
        /\ faults' = faults + 1
        /\ wpc' = [wpc EXCEPT ![k] = "done"]
        /\ hst' = [hst EXCEPT !.chunkFailed = @ \cup {batch[k].file}]
        /\ UNCHANGED wdocs
  /\ UNCHANGED <<world, main, batch, mu, batchEmb, batchChunks, allEmbeddings, totalChunks,
                 prev, dirty, srcChanged>>
  /\ UNCHANGED side

\* Worker k: generateEmbeddings; no call is made for an empty document list;
\* on failure the goroutine logs and returns.
WorkerEmbed(k) ==
  /\ pc = "wait"
  /\ k \in DOMAIN wpc
  /\ wpc[k] = "embed"
  /\ \/ /\ wpc' = [wpc EXCEPT ![k] = "lock"]
        /\ calls' = [calls EXCEPT !.embed = IF Len(wdocs[k]) = 0 THEN @ ELSE @ + 1]
        /\ UNCHANGED <<faults, hst>>
     \/ /\ Len(wdocs[k]) > 0
        /\ faults < MaxFaults
        /\ faults' = faults + 1
        /\ calls' = [calls EXCEPT !.embed = @ + 1]
        /\ wpc' = [wpc EXCEPT ![k] = "done"]
        /\ hst' = [hst EXCEPT !.embedFailed = @ \cup {batch[k].file}]
  /\ UNCHANGED <<world, main, batch, wdocs, mu, batchEmb, batchChunks, allEmbeddings,
                 totalChunks, prev, dirty, srcChanged>>
  /\ UNCHANGED side

\* Faulty variant of WorkerLock, used to test the properties below: the worker
\* enters the append without waiting for the mutex.
WorkerLockNoMutex(k) ==
  /\ pc = "wait"
  /\ k \in DOMAIN wpc
  /\ wpc[k] = "lock"
  /\ mu' = k
  /\ wpc' = [wpc EXCEPT ![k] = "append"]
  /\ UNCHANGED <<world, main, batch, wdocs, batchEmb, batchChunks, allEmbeddings, totalChunks,
                 ghost>>
  /\ UNCHANGED side

\* Worker k: mu.Lock()
WorkerLock(k) ==
  /\ pc = "wait"
  /\ k \in DOMAIN wpc
  /\ wpc[k] = "lock"
  /\ mu = 0
  /\ mu' = k
  /\ wpc' = [wpc EXCEPT ![k] = "append"]
  /\ UNCHANGED <<world, main, batch, wdocs, batchEmb, batchChunks, allEmbeddings, totalChunks,
                 ghost>>
  /\ UNCHANGED side

\* Faulty variant of WorkerAppend, used to test the properties below: the
\* embeddings of the worker are not appended as one block.
WorkerAppendInterleaved(k) ==
  /\ pc = "wait"
  /\ k \in DOMAIN wpc
  /\ wpc[k] = "append"
  /\ mu = k
  /\ batchEmb' = IF wdocs[k] = <<>> THEN batchEmb
                  ELSE <<Head(wdocs[k])>> \o batchEmb \o Tail(wdocs[k])
  /\ batchChunks' = batchChunks + Len(wdocs[k])
  /\ mu' = 0
  /\ wpc' = [wpc EXCEPT ![k] = "done"]
  /\ hst' = [hst EXCEPT !.embedded = @ \cup {batch[k].file}]
  /\ UNCHANGED <<world, main, batch, wdocs, allEmbeddings, totalChunks, calls, faults, prev,
                 dirty, srcChanged>>
  /\ UNCHANGED side

\* Worker k: the append and the increment under the lock, then mu.Unlock()
WorkerAppend(k) ==
  /\ pc = "wait"
  /\ k \in DOMAIN wpc
  /\ wpc[k] = "append"
  /\ mu = k
  /\ batchEmb' = batchEmb \o wdocs[k]
  /\ batchChunks' = batchChunks + Len(wdocs[k])
  /\ mu' = 0
  /\ wpc' = [wpc EXCEPT ![k] = "done"]
  /\ hst' = [hst EXCEPT !.embedded = @ \cup {batch[k].file}]
  /\ UNCHANGED <<world, main, batch, wdocs, allEmbeddings, totalChunks, calls, faults, prev,
                 dirty, srcChanged>>
  /\ UNCHANGED side

\* Faulty variant of BatchJoin, used to test the properties below: a batch in which a file failed is dropped as a whole.
BatchJoinDropOnFailure ==
  /\ pc = "wait"
  /\ \A k \in DOMAIN wpc : wpc[k] = "done"
  /\ LET failed == \E k \in DOMAIN batch :
                     batch[k].file \in hst.chunkFailed \cup hst.embedFailed
     IN /\ allEmbeddings' = IF failed THEN allEmbeddings ELSE allEmbeddings \o batchEmb
        /\ totalChunks' = IF failed THEN totalChunks ELSE totalChunks + batchChunks
  /\ batchI' = batchI + maxWorkers
  /\ batch' = <<>>
  /\ wpc' = <<>>
  /\ wdocs' = <<>>
  /\ batchEmb' = <<>>
  /\ batchChunks' = 0
  /\ pc' = "process"
  /\ UNCHANGED <<world, runNo, incremental, repoIdx, lastCommitSHA, allChangedFiles,
                 validFiles, saveIdx, result, retErr, notifType, notified, response, mu,
                 ghost>>
  /\ UNCHANGED side

\* Faulty variant of BatchJoin, used to test the properties below: the chunk
\* total counts the chunks of every file that was chunked, vectorized or not.
BatchJoinCountsAllChunks ==
  /\ pc = "wait"
  /\ \A k \in DOMAIN wpc : wpc[k] = "done"
  /\ allEmbeddings' = allEmbeddings \o batchEmb
  /\ totalChunks' = totalChunks + SumSeq([k \in DOMAIN wdocs |-> Len(wdocs[k])])
  /\ batchI' = batchI + maxWorkers
  /\ batch' = <<>>
  /\ wpc' = <<>>
  /\ wdocs' = <<>>
  /\ batchEmb' = <<>>
  /\ batchChunks' = 0
  /\ pc' = "process"
  /\ UNCHANGED <<world, runNo, incremental, repoIdx, lastCommitSHA, allChangedFiles,
                 validFiles, saveIdx, result, retErr, notifType, notified, response, mu, ghost>>
  /\ UNCHANGED side

\* wg.Wait() returns; processFiles adds the batch to its totals and moves on.
BatchJoin ==
  /\ pc = "wait"
  /\ \A k \in DOMAIN wpc : wpc[k] = "done"
  /\ allEmbeddings' = allEmbeddings \o batchEmb
  /\ totalChunks' = totalChunks + batchChunks
  /\ batchI' = batchI + maxWorkers
  /\ batch' = <<>>
  /\ wpc' = <<>>
  /\ wdocs' = <<>>
  /\ batchEmb' = <<>>
  /\ batchChunks' = 0
  /\ pc' = "process"
  /\ UNCHANGED <<world, runNo, incremental, repoIdx, lastCommitSHA, allChangedFiles,
                 validFiles, saveIdx, result, retErr, notifType, notified, response, mu, ghost>>
  /\ UNCHANGED side

\* Faulty variant of ProcessFilesReturn, used to test the properties below: Step 5
\* runs even when there is no embedding to write.
ProcessFilesReturnAlwaysUpsert ==
  /\ pc = "process"
  /\ batchI >= Len(validFiles)
  /\ result' = [result EXCEPT !.ChunksCreated = totalChunks,
                              !.EmbeddingsGenerated = Len(allEmbeddings)]
  /\ saveIdx' = 1
  /\ pc' = "upsert"
  /\ UNCHANGED <<world, runNo, incremental, repoIdx, lastCommitSHA, allChangedFiles,
                 validFiles, batchI, retErr, notifType, notified, response, pool, ghost>>
  /\ UNCHANGED side

\* Faulty variant of ProcessFilesReturn, used to test the properties below:
\* processFiles reports an error when a file of the run failed, and the run
\* ends on the fatal path.
ProcessFilesReturnError ==
  /\ pc = "process"
  /\ batchI >= Len(validFiles)
  /\ IF hst.chunkFailed \cup hst.embedFailed # {}
       THEN /\ FailRun("process")
            /\ UNCHANGED saveIdx
       ELSE /\ result' = [result EXCEPT !.ChunksCreated = totalChunks,
                                        !.EmbeddingsGenerated = Len(allEmbeddings)]
            /\ saveIdx' = 1
            /\ pc' = IF Len(allEmbeddings) > 0 THEN "upsert" ELSE "save"
            /\ UNCHANGED <<retErr, notifType>>
  /\ UNCHANGED <<world, runNo, incremental, repoIdx, lastCommitSHA, allChangedFiles,
                 validFiles, batchI, notified, response, pool, ghost>>
  /\ UNCHANGED side

\* processFiles returns (it never returns an error); Step 4's counters.
ProcessFilesReturn ==
  /\ pc = "process"
  /\ batchI >= Len(validFiles)
  /\ result' = [result EXCEPT !.ChunksCreated = totalChunks,
                              !.EmbeddingsGenerated = Len(allEmbeddings)]
  /\ saveIdx' = 1
  /\ pc' = IF Len(allEmbeddings) > 0 THEN "upsert" ELSE "save"
  /\ UNCHANGED <<world, runNo, incremental, repoIdx, lastCommitSHA, allChangedFiles,
                 validFiles, batchI, retErr, notifType, notified, response, pool, ghost>>
  /\ UNCHANGED side

\* ------------------------------------------------ Step 5: upsert to the index
\* Faulty variant of UpsertError, used to test the properties below: the error is recorded but Step 6 still runs.
UpsertErrorIgnored(files) ==
  /\ faults < MaxFaults
  /\ faults' = faults + 1
  /\ result' = [result EXCEPT !.Errors = Append(@, "upsert")]
  /\ hst' = [hst EXCEPT !.payload = files, !.upsertFailed = TRUE]
  /\ pc' = "save"
  /\ UNCHANGED <<index, retErr, notifType>>

\* upsertVectors failed: the run ends on the fatal path, before Step 6.
UpsertError(files) ==
  /\ faults < MaxFaults
  /\ faults' = faults + 1
  /\ FailRun("upsert")
  /\ hst' = [hst EXCEPT !.payload = files, !.upsertFailed = TRUE]
  /\ UNCHANGED index

\* One upsert call carries every embedding of the run; it is all or nothing.
Upsert ==
  /\ pc = "upsert"
  /\ calls' = [calls EXCEPT !.upsert = @ + 1]
  /\ LET files == {e[1] : e \in SeqToSet(allEmbeddings)} IN
       \/ /\ index' = index \cup SeqToSet(allEmbeddings)
          /\ result' = [result EXCEPT !.VectorsUpserted = Len(allEmbeddings)]
          /\ hst' = [hst EXCEPT !.payload = files, !.written = files]
          /\ pc' = "save"
          /\ UNCHANGED <<retErr, notifType, faults>>
       \/ UpsertError(files)
  /\ UNCHANGED <<head, hist, commits, store, maxWorkers, runNo, incremental, repoIdx,
                 lastCommitSHA, allChangedFiles, validFiles, batchI, saveIdx, notified,
                 response, pool, prev, dirty, srcChanged>>
  /\ UNCHANGED side

\* ------------------------------------------------ Step 6: update the metadata
\* One saveMetadata call per valid file; its error is dropped.
SaveMetadataStep ==
  /\ pc = "save"
  /\ saveIdx <= Len(validFiles)
  /\ LET file == validFiles[saveIdx]
         metadata == [file |-> file.file, sha |-> file.sha, count |-> 0,
                      status |-> "synced", at |-> runNo]
     IN /\ calls' = [calls EXCEPT !.save = @ + 1]
        /\ \/ /\ store' = SaveSyncMetadata(store, metadata)
              /\ hst' = [hst EXCEPT !.saveAsked = @ \cup {file.file},
                                    !.saved = @ \cup {file.file}]
              /\ UNCHANGED faults
           \/ /\ faults < MaxFaults
              /\ faults' = faults + 1
              /\ hst' = [hst EXCEPT !.saveAsked = @ \cup {file.file}]
              /\ UNCHANGED store
  /\ saveIdx' = saveIdx + 1
  /\ UNCHANGED <<head, hist, commits, index, maxWorkers, pc, runNo, incremental, repoIdx,
                 lastCommitSHA, allChangedFiles, validFiles, batchI, result, retErr,
                 notifType, notified, response, pool, prev, dirty, srcChanged>>
  /\ UNCHANGED side

\* Faulty variant of Finish, used to test the properties below: the success
\* notification does not wait for the last saveMetadata call.
FinishEarly ==
  /\ pc = "save"
  /\ saveIdx >= 1
  /\ result' = [result EXCEPT !.EndTimeSet = TRUE, !.Success = TRUE]
  /\ notifType' = "success"
  /\ pc' = "notify"
  /\ UNCHANGED <<world, runNo, incremental, repoIdx, lastCommitSHA, allChangedFiles,
                 validFiles, batchI, saveIdx, retErr, notified, response, pool, ghost>>
  /\ UNCHANGED side

\* End of the success path: timestamps, Success = true, success notification.
Finish ==
  /\ pc = "save"
  /\ saveIdx > Len(validFiles)
  /\ result' = [result EXCEPT !.EndTimeSet = TRUE, !.Success = TRUE]
  /\ notifType' = "success"
  /\ pc' = "notify"
  /\ UNCHANGED <<world, runNo, incremental, repoIdx, lastCommitSHA, allChangedFiles,
                 validFiles, batchI, saveIdx, retErr, notified, response, pool, ghost>>
  /\ UNCHANGED side

\* Faulty variant of SendNotification, used to test the properties below: a
\* notification that could not be delivered fails the run.
SendNotificationEscalates ==
  /\ pc = "notify"
  /\ \E delivered \in BOOLEAN :
       /\ notified' = Append(notified, [type |-> notifType, delivered |-> delivered,
                                        result |-> result])
       /\ result' = IF delivered THEN result
                    ELSE [result EXCEPT !.Errors = Append(@, "notify"), !.Success = FALSE]
       /\ retErr' = IF delivered THEN retErr ELSE "notify"
  /\ calls' = [calls EXCEPT !.notify = @ + 1]
  /\ pc' = "done"
  /\ UNCHANGED <<world, runNo, incremental, repoIdx, lastCommitSHA, allChangedFiles,
                 validFiles, batchI, saveIdx, notifType, response, pool,
                 faults, hst, prev, dirty, srcChanged>>
  /\ UNCHANGED side

\* sendNotification: one POST to the notifier, whose outcome is ignored;
\* SyncProject then returns.
SendNotification ==
  /\ pc = "notify"
  /\ \E delivered \in BOOLEAN :
       notified' = Append(notified, [type |-> notifType, delivered |-> delivered,
                                     result |-> result])
  /\ calls' = [calls EXCEPT !.notify = @ + 1]
  /\ pc' = "done"
  /\ UNCHANGED <<world, runNo, incremental, repoIdx, lastCommitSHA, allChangedFiles,
                 validFiles, batchI, saveIdx, result, retErr, notifType, response, pool,
                 faults, hst, prev, dirty, srcChanged>>
  /\ UNCHANGED side

\* Faulty variant of HandleSyncRespond, used to test the properties below: on an
\* error only the status is written, without a body.
HandleSyncRespondErrorOnly ==
  /\ pc = "done"
  /\ response' = IF retErr # "none"
                   THEN [status |-> 500, hasBody |-> FALSE, body |-> EmptyResult]
                   ELSE [status |-> 200, hasBody |-> TRUE, body |-> result]
  /\ prev' = PrevOf
  /\ pc' = "idle"
  /\ result' = EmptyResult
  /\ repoIdx' = 0
  /\ lastCommitSHA' = NoSHA
  /\ allChangedFiles' = <<>>
  /\ validFiles' = <<>>
  /\ batchI' = 0
  /\ saveIdx' = 0
  /\ retErr' = "none"
  /\ notifType' = "none"
  /\ notified' = <<>>
  /\ allEmbeddings' = <<>>
  /\ totalChunks' = 0
  /\ calls' = NoCalls
  /\ hst' = NoHistory
  /\ UNCHANGED <<world, runNo, incremental, batch, wpc, wdocs, mu, batchEmb, batchChunks,
                 faults, dirty, srcChanged>>
  /\ UNCHANGED side

\* handleSync: SyncProject has returned; status 500 on an error, and the result
\* is encoded as the body.  The run's locals are gone afterwards.
HandleSyncRespond ==
  /\ pc = "done"
  /\ response' = [status |-> IF retErr # "none" THEN 500 ELSE 200, hasBody |-> TRUE,
                  body |-> result]
  /\ prev' = PrevOf
  /\ pc' = "idle"
  /\ result' = EmptyResult
  /\ repoIdx' = 0
  /\ lastCommitSHA' = NoSHA
  /\ allChangedFiles' = <<>>
  /\ validFiles' = <<>>
  /\ batchI' = 0
  /\ saveIdx' = 0
  /\ retErr' = "none"
  /\ notifType' = "none"
  /\ notified' = <<>>
  /\ allEmbeddings' = <<>>
  /\ totalChunks' = 0
  /\ calls' = NoCalls
  /\ hst' = NoHistory
  /\ UNCHANGED <<world, runNo, incremental, batch, wpc, wdocs, mu, batchEmb, batchChunks,
                 faults, dirty, srcChanged>>
  /\ UNCHANGED side

\* --------------------------------------------------------------------- Next
Next ==
  \/ \E f \in Files, sz \in -1..MaxChunks : Commit(f, sz)
  \/ \E inc \in BOOLEAN : StartRun(inc)
  \/ Cancel
  \/ Discover
  \/ GetLastCommitSHA
  \/ GetChangedFilesStep
  \/ FilterStep
  \/ StartBatch
  \/ \E k \in 1..MaxW : WorkerChunk(k)
  \/ \E k \in 1..MaxW : WorkerEmbed(k)
  \/ \E k \in 1..MaxW : WorkerLock(k)
  \/ \E k \in 1..MaxW : WorkerAppend(k)
  \/ BatchJoin
  \/ ProcessFilesReturn
  \/ Upsert
  \/ SaveMetadataStep
  \/ Finish
  \/ SendNotification
  \/ HandleSyncRespond

Spec == Init /\ [][Next]_vars



\* ------------------------------------------- concurrent handleSync requests
\* net/http serves every request in a goroutine of its own and handleSync takes
\* no lock, so the requests below run SyncProject side by side on the same
\* checkpoint store and index.  Each run is taken in three steps, every
\* collaborator call succeeding.
RunVars == <<maxWorkers, main, pool, ghost, probe>>

\* The project_id values a request can carry; "" is the absent parameter.
ProjectIDs == {"", "p", "q"}

\* The rows of the projects table with enabled = 1; "q" has no row.
EnabledProjects == {"default", "p"}

\* config.GitHub.Organization, the same for every request of the process.
Organization == "org"

\* The Namespace generateEmbeddings puts on the embeddings of a run for project.
EmbeddingNamespace(project) == Organization

\* A push to a repository, at any time.
ReqPush(f, sz) ==
  /\ commits < MaxCommits
  /\ sz = -1 => SizeAt(f, head[RepoOf(f)]) >= 0
  /\ commits' = commits + 1
  /\ head' = [head EXCEPT ![RepoOf(f)] = @ + 1]
  /\ hist' = [hist EXCEPT ![f] = Append(@, [sha |-> head[RepoOf(f)] + 1, size |-> sz])]
  /\ UNCHANGED <<store, index, reqs, rows, RunVars>>

\* handleSync reads the query and calls SyncProject; an empty project_id
\* becomes "default".
ReqStart(i, pid, inc) ==
  /\ reqs[i].pc = "idle"
  /\ reqs' = [reqs EXCEPT ![i] = [pc |-> "sync",
                                  project |-> IF pid = "" THEN "default" ELSE pid,
                                  incremental |-> inc, files |-> <<>>, idx |-> 0,
                                  namespace |-> "", success |-> FALSE]]
  /\ UNCHANGED <<head, hist, commits, store, index, rows, RunVars>>

\* Steps 1 to 5 of SyncProject: discovery, markers, diffs, filter, processing
\* and the upsert of every vector, in the namespace of the first embedding.
ReqCollect(i) ==
  /\ reqs[i].pc = "sync"
  /\ \E m1 \in IF reqs[i].incremental
                 THEN LookupOutcomesOf(rows, reqs[i].project, Repos[1]) ELSE {NoSHA},
        m2 \in IF reqs[i].incremental
                 THEN LookupOutcomesOf(rows, reqs[i].project, Repos[2]) ELSE {NoSHA} :
       LET recs == filterFiles(GetChangedFiles(Repos[1], m1, {}) \o
                               GetChangedFiles(Repos[2], m2, {}))
           written == {d \in Files \X (0..(MaxChunks - 1)) :
                         \E k \in 1..Len(recs) : recs[k].file = d[1] /\ d[2] < recs[k].size}
       IN /\ index' = index \cup written
          /\ reqs' = [reqs EXCEPT ![i].pc = "save", ![i].files = recs, ![i].idx = 1,
                                  ![i].namespace = IF written = {} THEN ""
                                                   ELSE EmbeddingNamespace(reqs[i].project)]
  /\ UNCHANGED <<head, hist, commits, store, rows, RunVars>>

\* Step 6 of SyncProject, one saveMetadata call.
ReqSave(i) ==
  /\ reqs[i].pc = "save"
  /\ reqs[i].idx <= Len(reqs[i].files)
  /\ LET file == reqs[i].files[reqs[i].idx]
     IN rows' = SaveSyncMetadataRow(rows,
                  [project |-> reqs[i].project, repository |-> RepoOf(file.file),
                   path |-> file.file, sha |-> file.sha, at |-> i, count |-> 0,
                   status |-> "synced"])
  /\ reqs' = [reqs EXCEPT ![i].idx = @ + 1]
  /\ UNCHANGED <<head, hist, commits, store, index, RunVars>>

\* SyncProject sets Success, returns, and handleSync writes the response.
ReqReturn(i) ==
  /\ reqs[i].pc = "save"
  /\ reqs[i].idx > Len(reqs[i].files)
  /\ reqs' = [reqs EXCEPT ![i].pc = "done", ![i].success = TRUE]
  /\ UNCHANGED <<head, hist, commits, store, index, rows, RunVars>>

NextRequests ==
  \/ \E f \in Files, sz \in -1..MaxChunks : ReqPush(f, sz)
  \/ \E i \in 1..MaxReqs, pid \in ProjectIDs, inc \in BOOLEAN : ReqStart(i, pid, inc)
  \/ \E i \in 1..MaxReqs : ReqCollect(i)
  \/ \E i \in 1..MaxReqs : ReqSave(i)
  \/ \E i \in 1..MaxReqs : ReqReturn(i)

SpecRequests == Init /\ [][NextRequests]_vars



\* ---------------------------------------------- document processor (chunker)
\* Text is a sequence of characters over a small alphabet; "LF" is the newline.
Alphabet == {"a", ".", " ", "LF"}
Texts == UNION {[1..n -> Alphabet] : n \in 0..MaxText}

Max(a, b) == IF a > b THEN a ELSE b

IsSpace(c) == c \in {" ", "LF"}

\* strings.TrimSpace
TrimSpace(t) ==
  LET keep == {i \in 1..Len(t) : ~IsSpace(t[i])}
  IN IF keep = {} THEN <<>>
     ELSE SubSeq(t, CHOOSE i \in keep : \A j \in keep : i <= j,
                    CHOOSE i \in keep : \A j \in keep : j <= i)

\* strings.Split(content, "\n")
RECURSIVE SplitLines(_)
SplitLines(t) ==
  LET lf == {i \in 1..Len(t) : t[i] = "LF"}
  IN IF lf = {} THEN <<t>>
     ELSE LET i == CHOOSE k \in lf : \A j \in lf : k <= j
          IN <<SubSeq(t, 1, i - 1)>> \o SplitLines(SubSeq(t, i + 1, Len(t)))

\* strings.Join(lines, "\n")
RECURSIVE JoinLines(_)
JoinLines(ls) ==
  IF ls = <<>> THEN <<>>
  ELSE IF Len(ls) = 1 THEN ls[1]
  ELSE ls[1] \o <<"LF">> \o JoinLines(Tail(ls))

\* CleanContent: every line trimmed, empty lines dropped (every character of
\* the alphabet is printable, so none is removed by the strings.Map call).
CleanContent(content) ==
  LET lines == SplitLines(content)
      trimmed == [i \in 1..Len(lines) |-> TrimSpace(lines[i])]
  IN JoinLines(SelectSeq(trimmed, LAMBDA l : Len(l) > 0))

\* strings.LastIndexAny(t, ".!?\n"), 0-based, -1 when there is none
LastIndexAny(t) ==
  LET hits == {i \in 1..Len(t) : t[i] \in {".", "LF"}}
  IN IF hits = {} THEN -1 ELSE (CHOOSE i \in hits : \A j \in hits : j <= i) - 1

\* One iteration of the loop of splitIntoChunks from position start: the end
\* of the chunk that is cut.
ChunkEnd(text, maxSize, start) ==
  LET end == Min(start + maxSize, Len(text))
      lastPeriod == LastIndexAny(Slice(text, start, end))
  IN IF end < Len(text) /\ lastPeriod > maxSize \div 2 THEN start + lastPeriod + 1 ELSE end

\* The loop of splitIntoChunks returns within fuel iterations.
RECURSIVE SplitReturns(_, _, _, _, _)
SplitReturns(text, maxSize, overlap, start, fuel) ==
  IF start >= Len(text) THEN TRUE
  ELSE IF fuel = 0 THEN FALSE
  ELSE SplitReturns(text, maxSize, overlap,
                    Max(ChunkEnd(text, maxSize, start) - overlap, 0), fuel - 1)

\* The chunks the loop of splitIntoChunks appends, at most fuel iterations.
RECURSIVE SplitFrom(_, _, _, _, _)
SplitFrom(text, maxSize, overlap, start, fuel) ==
  IF start >= Len(text) \/ fuel = 0 THEN <<>>
  ELSE LET end == ChunkEnd(text, maxSize, start)
           chunk == TrimSpace(Slice(text, start, end))
       IN (IF Len(chunk) > 0 THEN <<chunk>> ELSE <<>>)
            \o SplitFrom(text, maxSize, overlap, Max(end - overlap, 0), fuel - 1)

splitIntoChunks(text, maxSize, overlap) == SplitFrom(text, maxSize, overlap, 0, MaxIter)

\* The decimal digits of a chunk ordinal (%d).
Digits(i) == <<CASE i = 0 -> "0" [] i = 1 -> "1" [] i = 2 -> "2" [] i = 3 -> "3"
                 [] i = 4 -> "4" [] i = 5 -> "5" [] i = 6 -> "6" [] i = 7 -> "7"
                 [] i = 8 -> "8" [] OTHER -> "9">>

\* Faulty variant of DocID, used to test the properties below: the revision
\* marker is part of the identifier.
DocIDWithRevision(fc, i) ==
  fc.Repository \o <<"-">> \o fc.FilePath \o <<"-">> \o Digits(fc.CommitSHA) \o <<"-">> \o Digits(i)

\* The string whose MD5 is the document identifier: "%s-%s-%d" of repository,
\* path and ordinal (MD5 is taken as injective on these strings).
DocID(fc, i) == fc.Repository \o <<"-">> \o fc.FilePath \o <<"-">> \o Digits(i)

\* ChunkDocument returns (its loop ends).
ChunkReturns(fc, maxSize, overlap) ==
  LET content == CleanContent(fc.Content)
  IN Len(content) <= maxSize \/ SplitReturns(content, maxSize, overlap, 0, MaxIter)

\* DocumentProcessor.ChunkDocument on the text of a file.
ChunkDocumentFull(fc, maxSize, overlap) ==
  LET content == CleanContent(fc.Content)
      chunks == IF Len(content) = 0 THEN <<>>
                ELSE IF Len(content) <= maxSize THEN <<content>>
                ELSE splitIntoChunks(content, maxSize, overlap)
  IN [i \in 1..Len(chunks) |->
        [ID |-> DocID(fc, i - 1), Repository |-> fc.Repository, FilePath |-> fc.FilePath,
         Content |-> chunks[i], ChunkIndex |-> i - 1, TotalChunks |-> Len(chunks),
         CommitSHA |-> fc.CommitSHA]]

\* ------------------------------------------------- calls of library functions
ProbeRepos == {<<"r">>, <<"r", "-", "a">>}
ProbeFilePaths == {<<"a">>, <<"a", "-", "b">>}
AltTexts == {<<"a">>, <<"a", ".", "a", "a">>, <<"a", "LF", " ", "a">>}

Dirs == {<<>>, <<"n", "/">>, <<"x", "/">>}
ProbePaths ==
  {d1 \o d2 \o <<nm>> \o ext : d1 \in Dirs, d2 \in Dirs, nm \in {"a", "x"},
                               ext \in {<<".", "m">>, <<".", "t">>, <<".", "g">>, <<>>}}

RestVars == <<world, main, pool, ghost, reqs, rows>>

\* POST /chunk for a file.
ChunkFirst ==
  /\ probe.op = "none"
  /\ \E repo \in ProbeRepos, path \in ProbeFilePaths, text \in Texts,
        maxSize \in 1..MaxChunkSize, overlap \in 0..MaxOverlap :
       LET fc == [Repository |-> repo, FilePath |-> path, Content |-> text, CommitSHA |-> 1]
       IN probe' = [op |-> "chunk", fc |-> fc, maxSize |-> maxSize, overlap |-> overlap,
                    returned |-> ChunkReturns(fc, maxSize, overlap),
                    docs |-> ChunkDocumentFull(fc, maxSize, overlap)]
  /\ UNCHANGED RestVars

\* POST /chunk again for the same file (same repository and path) with the
\* same parameters, at the same or a later revision, unchanged or edited.
ChunkAgain ==
  /\ probe.op = "chunk"
  /\ \E sha \in 1..2, text \in {probe.fc.Content} \cup AltTexts :
       LET fc == [probe.fc EXCEPT !.Content = text, !.CommitSHA = sha]
       IN probe' = [op |-> "rechunk", fc |-> probe.fc, maxSize |-> probe.maxSize,
                    overlap |-> probe.overlap, returned |-> probe.returned,
                    docs |-> probe.docs, fc2 |-> fc,
                    returned2 |-> ChunkReturns(fc, probe.maxSize, probe.overlap),
                    docs2 |-> ChunkDocumentFull(fc, probe.maxSize, probe.overlap)]
  /\ UNCHANGED RestVars

\* filterFiles decides about one path.
FilterProbe ==
  /\ probe.op = "none"
  /\ \E path \in ProbePaths : probe' = [op |-> "filter", path |-> path, out |-> filterKeeps(path)]
  /\ UNCHANGED RestVars

\* The keys the table calls are made with: the first, and three that differ
\* from it in the project, the repository or the path.
TableKeys ==
  {<<"p", "r1", "a">>, <<"q", "r1", "a">>, <<"p", "r2", "a">>, <<"p", "r1", "b">>}

\* The table calls made so far.
StoreOps == IF probe.op \in {"save", "delete", "get"} THEN probe.n ELSE 0

\* The key of the previous table call.
LastKey == IF probe.op \in {"save", "delete", "get"} THEN probe.key ELSE <<>>

\* A SaveSyncMetadata call.
StoreSave ==
  /\ probe.op \in {"none", "save", "delete", "get"}
  /\ StoreOps < MaxStoreOps
  /\ \E key \in TableKeys, sha \in 1..2, count \in 0..1, status \in {"synced", "failed"} :
       LET md == [project |-> key[1], repository |-> key[2], path |-> key[3], sha |-> sha,
                  at |-> StoreOps + 1, count |-> count, status |-> status]
       IN /\ rows' = SaveSyncMetadataRow(rows, md)
          /\ probe' = [op |-> "save", n |-> StoreOps + 1, key |-> key, md |-> md,
                       before |-> rows, out |-> NotFound, prevOp |-> probe.op,
                       prevKey |-> LastKey]
  /\ UNCHANGED <<world, main, pool, ghost, reqs>>

\* A DeleteSyncMetadata call.
StoreDelete ==
  /\ probe.op \in {"none", "save", "delete", "get"}
  /\ StoreOps < MaxStoreOps
  /\ \E key \in TableKeys :
       /\ rows' = DeleteSyncMetadata(rows, key)
       /\ probe' = [op |-> "delete", n |-> StoreOps + 1, key |-> key, md |-> NotFound,
                    before |-> rows, out |-> NotFound, prevOp |-> probe.op,
                    prevKey |-> LastKey]
  /\ UNCHANGED <<world, main, pool, ghost, reqs>>

\* A GetSyncMetadata call.
StoreGet ==
  /\ probe.op \in {"none", "save", "delete", "get"}
  /\ StoreOps < MaxStoreOps
  /\ \E key \in TableKeys :
       probe' = [op |-> "get", n |-> StoreOps + 1, key |-> key, md |-> NotFound,
                 before |-> rows, out |-> GetSyncMetadata(rows, key), prevOp |-> probe.op,
                 prevKey |-> LastKey]
  /\ UNCHANGED <<world, main, pool, ghost, reqs, rows>>

\* The values MAX_WORKERS can be given: getEnvInt accepts every integer.
WorkerSettings == (-1)..MaxW

\* The loop of processFiles over n files from index i: it returns, it panics
\* on files[i:end] with end < i, or it is still running after fuel
\* iterations; batches are the [i, end) ranges handed to processBatch.
RECURSIVE BatchLoop(_, _, _, _)
BatchLoop(n, batchSize, i, fuel) ==
  IF i >= n THEN [outcome |-> "returns", batches |-> <<>>]
  ELSE LET end == Min(i + batchSize, n)
       IN IF end < i THEN [outcome |-> "panics", batches |-> <<>>]
          ELSE IF fuel = 0 THEN [outcome |-> "loops", batches |-> <<>>]
          ELSE LET rest == BatchLoop(n, batchSize, i + batchSize, fuel - 1)
               IN [outcome |-> rest.outcome, batches |-> << <<i, end>> >> \o rest.batches]

\* processFiles on n valid files under a MaxWorkers setting.
ProcessFilesProbe ==
  /\ probe.op = "none"
  /\ \E n \in 0..MaxProbeFiles, batchSize \in WorkerSettings :
       probe' = [op |-> "batches", n |-> n, batchSize |-> batchSize,
                 out |-> BatchLoop(n, batchSize, 0, MaxIter)]
  /\ UNCHANGED RestVars

\* Paths of files whose identifiers are compared.
IdPaths == ProbeFilePaths \cup {<<"b">>}

\* The identifier strings ChunkDocument forms for chunk i1 of one file and
\* chunk i2 of another.
IdProbe ==
  /\ probe.op = "none"
  /\ \E repo1 \in ProbeRepos, repo2 \in ProbeRepos, path1 \in IdPaths, path2 \in IdPaths,
        i1 \in 0..(MaxChunks - 1), i2 \in 0..(MaxChunks - 1) :
       LET fc1 == [Repository |-> repo1, FilePath |-> path1, Content |-> <<>>, CommitSHA |-> 1]
           fc2 == [Repository |-> repo2, FilePath |-> path2, Content |-> <<>>, CommitSHA |-> 1]
       IN probe' = [op |-> "ids", fc1 |-> fc1, i1 |-> i1, fc2 |-> fc2, i2 |-> i2,
                    id1 |-> DocID(fc1, i1), id2 |-> DocID(fc2, i2)]
  /\ UNCHANGED RestVars

\* filepath.Ext: the suffix from the last "." of the last path element, or
\* the empty string.
Ext(path) ==
  LET dots == {i \in 1..Len(path) :
                 path[i] = "." /\ \A j \in i..Len(path) : path[j] # "/"}
  IN IF dots = {} THEN <<>>
     ELSE SubSeq(path, CHOOSE i \in dots : \A j \in dots : j <= i, Len(path))

\* strings.Contains
StringsContains(s, substr) ==
  \E i \in 0..(Len(s) - Len(substr)) : SubSeq(s, i + 1, i + Len(substr)) = substr

\* DocumentProcessor.ValidateDocument
ValidateDocument(path, changeType, allowedExtensions, excludePatterns) ==
  /\ Len(allowedExtensions) > 0 =>
       \E i \in 1..Len(allowedExtensions) : Ext(path) = allowedExtensions[i]
  /\ ~ \E i \in 1..Len(excludePatterns) : StringsContains(path, excludePatterns[i])
  /\ changeType \notin {"deleted", "removed"}

\* The change types of the records the diffs return.
ChangeTypes == {"added", "modified", "removed"}

\* filterFiles and ValidateDocument decide about the same record with the
\* same lists.
ValidateProbe ==
  /\ probe.op = "none"
  /\ \E path \in ProbePaths, changeType \in ChangeTypes,
        allowed \in {AllowedExtensions, <<>>}, exclude \in {ExcludePatterns, <<>>} :
       probe' = [op |-> "validate", path |-> path, changeType |-> changeType,
                 allowed |-> allowed, exclude |-> exclude,
                 kept |-> filterKeepsFor(path, allowed, exclude),
                 valid |-> ValidateDocument(path, changeType, allowed, exclude)]
  /\ UNCHANGED RestVars

NextLib ==
  \/ ProcessFilesProbe
  \/ ValidateProbe
  \/ IdProbe
  \/ ChunkFirst
  \/ ChunkAgain
  \/ FilterProbe
  \/ StoreSave
  \/ StoreDelete
  \/ StoreGet

SpecLib == Init /\ [][NextLib]_vars


\* ================================================================== claims
\* Files whose chunking or vectorizing failed in the run.
FailedFiles == hst.chunkFailed \cup hst.embedFailed

\* The change record of a valid file of the run.
RecordOf(f) == CHOOSE fc \in SeqToSet(validFiles) : fc.file = f

\* Every vector of f's record is in the index after a write of this run
\* (a file without chunks has nothing to write).
VectorsWritten(f) ==
  /\ f \in hst.embedded
  /\ RecordOf(f).size > 0 => f \in hst.written

\* The run is past the filter step.
PastFilter == pc \in {"process", "wait", "upsert", "save", "notify", "done"}

\* The run injected no collaborator failure so far.
NoFaultThisRun == faults = hst.faultsAtStart

\* C1: at the end of a run, a valid file's checkpoint was saved in the run if
\* and only if the file's vectors were written to the index in the run.
C1_CheckpointIffWritten ==
  pc = "done" =>
    \A f \in hst.handled : (f \in hst.saved) <=> VectorsWritten(f)

\* C2: a run makes exactly one notifier call: none before the run reaches its
\* notification step, and exactly one when SyncProject has returned, on the
\* discovery-failure, upsert-failure and success paths alike.
C2_ExactlyOneNotification ==
  /\ Len(notified) = calls.notify
  /\ pc \in {"discover", "lookup", "diff", "filter", "process", "wait", "upsert",
             "save", "notify"} => Len(notified) = 0
  /\ pc = "done" =>
       /\ Len(notified) = 1
       /\ notified[1].type = (IF retErr = "none" THEN "success" ELSE "error")

C2_Witness ==
  /\ pc = "done"
  /\ hst.upsertFailed
  /\ Len(notified) = 1
  /\ notified[1].type = "error"

\* C3: when chunking or vectorizing a file B fails, the failure aborts nothing:
\* no chunk of B is handed to the index write, the vectors of every file that
\* succeeded are handed to it, and when that write succeeds the checkpoint
\* save is issued for every file that succeeded and the run ends successfully.
C3_PartialFailureIsolation ==
  pc = "done" =>
    \A b \in FailedFiles :
      /\ b \notin hst.payload
      /\ b \notin hst.written
      /\ \A e \in SeqToSet(allEmbeddings) : e[1] # b
      /\ retErr \in {"none", "upsert"}
      /\ ~hst.upsertFailed => result.Success
      /\ \A a \in hst.embedded :
           /\ RecordOf(a).size > 0 => a \in hst.payload
           /\ ~hst.upsertFailed =>
                /\ a \in hst.saveAsked
                /\ RecordOf(a).size > 0 => a \in hst.written
                /\ \A i \in 0..(RecordOf(a).size - 1) : <<a, i>> \in index
                /\ a \in hst.saved => store[a].sha = RecordOf(a).sha

C3_Witness ==
  /\ pc = "done"
  /\ maxWorkers = 3
  /\ hst.embedFailed = {"b"}
  /\ hst.embedded = {"a", "c"}
  /\ hst.written = {"a", "c"}
  /\ {"a", "c"} \subseteq hst.saved
  /\ store["a"].sha = RecordOf("a").sha
  /\ result.Success

\* C4: every file whose chunking or vectorizing failed has exactly one entry
\* in the returned Warnings that references it.
C4_WarningPerFailedFile ==
  pc = "done" =>
    \A f \in FailedFiles :
      Cardinality({i \in 1..Len(result.Warnings) : result.Warnings[i].ref = f}) = 1

\* C5: Success is true if and only if no fatal error occurred; the fatal class
\* is the discovery failure (the code has no project lookup and no run lock).
C5_SuccessIffNoFatal ==
  pc = "done" => (result.Success <=> ~hst.discoverFailed)

\* C6: after a discovery failure no diff, marker lookup, chunk, vectorize,
\* upsert or checkpoint call is made, the store is untouched, and the run
\* ends with Success = false, one entry in Errors and an error notification.
C6_DiscoveryFailureIsFatal ==
  hst.discoverFailed =>
    /\ pc \in {"notify", "done"}
    /\ calls.lookup = 0 /\ calls.diff = 0 /\ calls.chunk = 0 /\ calls.embed = 0
    /\ calls.upsert = 0 /\ calls.save = 0
    /\ store = hst.storeAtStart
    /\ ~result.Success
    /\ result.Errors = <<"discover">>
    /\ retErr = "discover"
    /\ notifType = "error"
    /\ pc = "done" => (Len(notified) = 1 /\ notified[1].type = "error")

C6_Witness ==
  /\ pc = "done"
  /\ hst.discoverFailed
  /\ runNo = 2
  /\ \E f \in Files : store[f].status = "synced"

\* C7: a diff failure of a repository is recorded as one warning, the
\* repository contributes no file, every other repository is still diffed,
\* and the failure never ends the run as failed.
C7_DiffFailureIsWarning ==
  /\ \A r \in hst.diffFailed :
       /\ Cardinality({i \in 1..Len(result.Warnings) :
                         result.Warnings[i] = [kind |-> "diff", ref |-> r]}) = 1
       /\ \A i \in 1..Len(allChangedFiles) : RepoOf(allChangedFiles[i].file) # r
  /\ Len(result.Warnings) = Cardinality(hst.diffFailed)
  /\ (PastFilter /\ ~hst.discoverFailed) => calls.diff = Len(Repos)
  /\ \A i \in 1..Len(result.Errors) : result.Errors[i] # "diff"
  /\ retErr # "diff"
  /\ (pc = "done" /\ hst.diffFailed # {} /\ ~hst.upsertFailed) => result.Success

C7_Witness ==
  /\ pc = "done"
  /\ hst.diffFailed = {"r1"}
  /\ Len(result.Warnings) = 1
  /\ "c" \in hst.written
  /\ result.Success

C9_UpsertFailureNotFatal ==
  (pc = "done" /\ hst.upsertFailed) => (result.EndTimeSet /\ retErr = "none")

\* C10: the second of two consecutive incremental runs without a source
\* change in between writes no vector and changes no checkpoint (stated for
\* two runs in which no collaborator call failed).
C10_IdempotentReprocessing ==
  (pc = "done" /\ prev.ran /\ prev.incremental /\ prev.clean /\ incremental
     /\ ~srcChanged /\ NoFaultThisRun) =>
    /\ calls.upsert = 0
    /\ hst.written = {}
    /\ store = hst.storeAtStart

\* What a run that diffs every repository without a marker, with every call
\* succeeding, hands to Step 4.
FromScratchRecords ==
  filterFiles(getAllFiles(Repos[1], {}) \o getAllFiles(Repos[2], {}))

\* The run started with an empty checkpoint store.
NoCheckpointsAtStart == hst.storeAtStart = [f \in Files |-> NoEntry]

\* C11: a full run never reads a marker and diffs every repository with the
\* empty marker, whatever checkpoints exist, exactly as an incremental run
\* that starts without checkpoints does; when no call fails both process
\* the records of the complete listing that pass the filter.
C11_FullEqualsFromScratch ==
  /\ ~incremental => (calls.lookup = 0 /\ hst.markers = NoMarkers)
  /\ (pc = "diff" /\ (~incremental \/ NoCheckpointsAtStart)) => lastCommitSHA = NoSHA
  /\ (PastFilter /\ NoFaultThisRun /\ (~incremental \/ NoCheckpointsAtStart)) =>
       /\ validFiles = FromScratchRecords
       /\ hst.handled = {fc.file : fc \in SeqToSet(FromScratchRecords)}

C11_Witness ==
  /\ pc = "done"
  /\ runNo = 2
  /\ ~incremental
  /\ NoFaultThisRun
  /\ \A f \in {"a", "b", "c"} :
       hst.storeAtStart[f].status = "synced" /\ hst.storeAtStart[f].sha = head[RepoOf(f)]
  /\ Len(validFiles) = 3
  /\ validFiles = FromScratchRecords
  /\ hst.written = {"a", "b", "c"}

\* The goroutines of the batch that have not returned yet.
ActiveWorkers == {k \in DOMAIN wpc : wpc[k] # "done"}

\* C12: at every moment at most MaxWorkers files are in the hands of worker
\* goroutines, and no goroutine is alive outside of a batch.
C12_ConcurrencyBound ==
  /\ Cardinality(ActiveWorkers) <= maxWorkers
  /\ Len(batch) <= maxWorkers
  /\ Len(wpc) = Len(batch)
  /\ pc # "wait" => wpc = <<>>

C12_Witness ==
  /\ pc = "wait"
  /\ maxWorkers = 2
  /\ Len(validFiles) = 3
  /\ batchI = 0
  /\ wpc = <<"embed", "embed">>

\* The requests that are inside SyncProject.
InSyncProject == {i \in 1..MaxReqs : reqs[i].pc \in {"sync", "save"}}

\* C13: at most one request for the project is inside SyncProject at a time.
C13_RunsSerialized ==
  \A i, j \in InSyncProject : reqs[i].project = reqs[j].project => i = j

\* C14: a run whose context was cancelled starts no further file after the
\* cancellation and ends with Success = false and a "canceled" error entry.
C14_CancelStopsRun ==
  (pc = "done" /\ hst.ctxDone) =>
    /\ hst.lateStarts = {}
    /\ ~result.Success
    /\ \E i \in 1..Len(result.Errors) : result.Errors[i] = "canceled"

\* The files of the removal records the diffs of this run returned.
RemovedFiles ==
  {allChangedFiles[i].file : i \in {j \in 1..Len(allChangedFiles) :
                                      allChangedFiles[j].kind = "removed"}}

\* C15: a removal record is never handed to the chunker or the vectorizer,
\* never contributes to an upsert and never gets a checkpoint saved.
C15_RemovalsExcluded ==
  \A f \in RemovedFiles :
    /\ f \notin hst.handled
    /\ f \notin hst.embedded \cup FailedFiles
    /\ f \notin hst.payload
    /\ f \notin hst.saved

\* C16: at the end of a successful run, for every removal record of a file
\* that had a checkpoint, the file's chunk identifiers are gone from the index
\* and its checkpoint entry is deleted.
C16_RemovalDeletes ==
  (pc = "done" /\ result.Success) =>
    \A f \in RemovedFiles :
      hst.storeAtStart[f].status # "none" =>
        /\ \A d \in index : d[1] # f
        /\ store[f] = NoEntry

\* C17: at the end of a successful run the index holds, for every file written
\* in the run, no chunk identifier beyond the file's current number of chunks.
C17_ShrinkDeletesStaleChunks ==
  (pc = "done" /\ result.Success) =>
    \A f \in hst.written : \A d \in index : d[1] = f => d[2] < RecordOf(f).size

\* C18: chunking the same file again with the same parameters returns the
\* same number of documents with the same ordinals, contents and identifiers
\* when the content is the same (whatever the revision), and the identifier
\* of an ordinal is the same whatever the content and the revision are.
C18_ChunkIdentityStable ==
  (probe.op = "rechunk" /\ probe.returned /\ probe.returned2) =>
    /\ probe.fc2.Content = probe.fc.Content =>
         /\ Len(probe.docs2) = Len(probe.docs)
         /\ \A i \in 1..Len(probe.docs) :
              /\ probe.docs2[i].ID = probe.docs[i].ID
              /\ probe.docs2[i].ChunkIndex = probe.docs[i].ChunkIndex
              /\ probe.docs2[i].TotalChunks = probe.docs[i].TotalChunks
              /\ probe.docs2[i].Content = probe.docs[i].Content
    /\ \A i \in 1..Min(Len(probe.docs), Len(probe.docs2)) :
         /\ probe.docs[i].ChunkIndex = i - 1
         /\ probe.docs2[i].ChunkIndex = i - 1
         /\ probe.docs2[i].ID = probe.docs[i].ID

C18_Witness ==
  /\ probe.op = "rechunk"
  /\ probe.returned /\ probe.returned2
  /\ probe.fc2.Content = probe.fc.Content
  /\ probe.fc2.CommitSHA # probe.fc.CommitSHA
  /\ Len(probe.docs) = 2
  /\ probe.docs2[2].ID = probe.docs[2].ID

\* pattern occurs in path at some position
IsSubstring(pattern, path) ==
  \E i \in 0..(Len(path) - Len(pattern)) : SubSeq(path, i + 1, i + Len(pattern)) = pattern

\* C19: the filter keeps a path if and only if it ends with an allowed
\* extension and contains no exclude pattern at any position.
C19_FilterBySubstring ==
  probe.op = "filter" =>
    (probe.out <=>
       /\ \E i \in 1..Len(AllowedExtensions) : HasSuffix(probe.path, AllowedExtensions[i])
       /\ ~ \E i \in 1..Len(ExcludePatterns) : IsSubstring(ExcludePatterns[i], probe.path))

\* The Content Filter as specified: an allowed extension, no exclude pattern
\* anywhere in the path, and not a removal.
PassesContentFilter(fc) ==
  /\ \E i \in 1..Len(AllowedExtensions) : HasSuffix(PathOf(fc.file), AllowedExtensions[i])
  /\ ~ \E i \in 1..Len(ExcludePatterns) : IsSubstring(ExcludePatterns[i], PathOf(fc.file))
  /\ fc.kind # "removed"

\* C20: at the end of a successful run RepositoriesScanned is the number of
\* discovered repositories, FilesDiscovered the number of change records the
\* diffs returned and FilesProcessed the number of those records that pass
\* the Content Filter.
C20_Counters ==
  (pc = "done" /\ result.Success) =>
    /\ result.RepositoriesScanned = Len(Repos)
    /\ result.FilesDiscovered = Len(allChangedFiles)
    /\ result.FilesProcessed =
         Cardinality({i \in 1..Len(allChangedFiles) : PassesContentFilter(allChangedFiles[i])})

\* C21: the classification handed to the notifier is "error" when the run
\* returns an error, "warning" when it does not but a warning was recorded,
\* and "success" only when neither happened.
C21_Classification ==
  pc = "done" =>
    /\ Len(notified) = 1
    /\ notified[1].type = (IF retErr # "none" THEN "error"
                           ELSE IF Len(result.Warnings) > 0 THEN "warning"
                           ELSE "success")

C25_CheckpointRecordsChunkCount ==
  pc = "done" =>
    \A f \in hst.saved \cap hst.embedded :
      /\ store[f].count = RecordOf(f).size
      /\ store[f].sha = RecordOf(f).sha
      /\ store[f].status = "synced"

C28_EndTimeBeforeNotification ==
  pc = "done" =>
    /\ Len(notified) = 1
    /\ notified[1].result.EndTimeSet
    /\ notified[1].result = result

\* C29: the collaborator calls of a run follow the phase order. A marker
\* lookup or a diff is made only after discovery succeeded; a chunk or
\* vectorize call only after the diff of every repository; the upsert only
\* after every worker of every batch finished; a checkpoint save only after
\* the upsert, if one was issued, succeeded, and no upsert follows a save; the
\* success notification only after the save of the last valid file.
C29_PhaseOrder ==
  /\ (calls.lookup > 0 \/ calls.diff > 0) =>
       calls.discover = 1 /\ ~hst.discoverFailed
  /\ pc \in {"lookup", "diff"} => calls.diff = repoIdx - 1
  /\ (calls.chunk > 0 \/ calls.embed > 0 \/ pc \in {"process", "wait"}) =>
       calls.diff = Len(Repos) /\ repoIdx = Len(Repos) + 1
  /\ (calls.upsert > 0 \/ pc = "upsert") =>
       /\ calls.upsert <= 1
       /\ batchI >= Len(validFiles)
       /\ pc \notin {"process", "wait"}
       /\ \A k \in DOMAIN wpc : wpc[k] = "done"
  /\ pc \in {"discover", "lookup", "diff", "filter", "process", "wait", "upsert"} =>
       calls.save = 0 /\ calls.notify = 0
  /\ calls.save > 0 =>
       /\ pc \in {"save", "notify", "done"}
       /\ ~hst.upsertFailed
       /\ calls.upsert = (IF Len(allEmbeddings) > 0 THEN 1 ELSE 0)
       /\ calls.upsert = 1 => hst.written = hst.payload
  /\ (calls.notify > 0 /\ notified[1].type = "success") =>
       calls.save = Len(validFiles)

C29_Witness ==
  /\ pc = "done"
  /\ notified[1].type = "success"
  /\ calls.discover = 1
  /\ calls.diff = Len(Repos)
  /\ calls.chunk = 3
  /\ calls.embed = 3
  /\ calls.upsert = 1
  /\ calls.save = 3

\* The workers of the current batch that are between mu.Lock() and mu.Unlock().
Appending == {k \in DOMAIN wpc : wpc[k] = "append"}

\* C30: in processBatch at most one worker at a time is appending to the
\* shared accumulator, and it is the holder of the mutex; the accumulated
\* values are returned only when every worker of the batch has finished, and
\* they are exactly the chunks of the workers that appended.
C30_AccumulatorExclusive ==
  /\ Cardinality(Appending) <= 1
  /\ \A k \in DOMAIN wpc : (wpc[k] = "append") <=> (mu = k)
  /\ pc = "wait" =>
       /\ batchChunks = Len(batchEmb)
       /\ batchChunks = SumSeq([k \in DOMAIN wpc |->
                           IF wpc[k] = "done" /\ batch[k].file \in hst.embedded
                             THEN Len(wdocs[k]) ELSE 0])
  /\ pc # "wait" => wpc = <<>> /\ batchEmb = <<>> /\ mu = 0
  /\ PastFilter /\ pc # "wait" => totalChunks = Len(allEmbeddings)

C30_Witness ==
  /\ pc = "wait"
  /\ \E k, j \in DOMAIN wpc :
       /\ wpc[k] = "append"
       /\ wpc[j] = "lock"
       /\ Len(wdocs[k]) > 0
       /\ Len(wdocs[j]) > 0

\* C23: a request for a project that is not an existing, enabled project
\* fails: it never reaches the diff, the processing, the index write or the
\* checkpoint writes, and it does not end with Success = true.
C23_UnknownProjectFails ==
  \A i \in 1..MaxReqs :
    (reqs[i].pc # "idle" /\ reqs[i].project \notin EnabledProjects) =>
      /\ reqs[i].pc # "save"
      /\ reqs[i].files = <<>>
      /\ reqs[i].namespace = ""
      /\ ~reqs[i].success
      /\ \A row \in rows : row.project # reqs[i].project

\* C24: the namespace a run writes its vectors to is determined by its
\* project: two runs for different projects that wrote vectors wrote them to
\* different namespaces.
C24_NamespacePerProject ==
  \A i, j \in 1..MaxReqs :
    (reqs[i].namespace # "" /\ reqs[j].namespace # "" /\ reqs[i].project # reqs[j].project) =>
      reqs[i].namespace # reqs[j].namespace

C31_NoCallUnderLock ==
  /\ \A k \in DOMAIN wpc : wpc[k] \in {"chunk", "embed", "lock", "done"} => mu # k
  /\ mu # 0 => pc = "wait" /\ mu \in DOMAIN wpc
  /\ pc \in {"upsert", "save", "notify", "done"} => mu = 0

C31_Witness ==
  /\ pc = "wait"
  /\ \E k, j \in DOMAIN wpc :
       /\ mu = k
       /\ wpc[k] = "append"
       /\ wpc[j] = "embed"
       /\ Len(wdocs[j]) > 0

\* What processFiles has accumulated so far: the joined batches and the
\* appends of the current batch.
Accumulated == allEmbeddings \o batchEmb

\* C32: whatever the interleaving of the workers, the accumulator holds
\* exactly the embeddings of the files whose vectorizing succeeded, each once,
\* the chunk total is the sum of their chunk counts, and the embeddings of a
\* file form one contiguous block in increasing ordinal order; only the
\* order between files varies.
C32_AccumulatorDeterministic ==
  PastFilter =>
    /\ SeqToSet(Accumulated) =
         {d \in Files \X (0..(MaxChunks - 1)) :
            d[1] \in hst.embedded /\ d[2] < RecordOf(d[1]).size}
    /\ \A i, j \in 1..Len(Accumulated) :
         (i < j /\ Accumulated[i][1] = Accumulated[j][1]) =>
           Accumulated[j][2] = Accumulated[i][2] + (j - i)
    /\ totalChunks + batchChunks = Len(Accumulated)
    /\ Len(Accumulated) = SumSeq([k \in 1..Len(validFiles) |->
                            IF validFiles[k].file \in hst.embedded
                              THEN validFiles[k].size ELSE 0])

C32_Witness ==
  /\ pc = "upsert"
  /\ Len(allEmbeddings) = 4
  /\ allEmbeddings[1][1] = "b"
  /\ allEmbeddings[2] = <<"a", 0>>
  /\ allEmbeddings[3] = <<"a", 1>>
  /\ result.ChunksCreated = 4

\* C33: the notifier call never changes the outcome of the run: whether the
\* notification is delivered or not, the result and the error SyncProject
\* returns are the ones it had before the call, and the run goes on to return.
C33_NotificationBestEffort ==
  [][pc = "notify" =>
       /\ result' = result
       /\ retErr' = retErr
       /\ pc' \in {"notify", "done"}]_vars

C33_Witness ==
  /\ pc = "done"
  /\ Len(notified) = 1
  /\ ~notified[1].delivered
  /\ retErr = "none"
  /\ result.Success
  /\ result.VectorsUpserted = 4
  /\ result = notified[1].result

\* C34: ChunkDocument returns for every content and every parameters with
\* maxSize > 0 and 0 <= overlap < maxSize: the loop of splitIntoChunks ends.
\* (The start position has at most MaxText values, so a loop that has not
\* ended after MaxIter iterations repeats a position and never ends.)
C34_ChunkDocumentTerminates ==
  (probe.op = "chunk" /\ probe.maxSize > 0 /\ 0 <= probe.overlap
     /\ probe.overlap < probe.maxSize) => probe.returned

\* C35: for every integer MaxWorkers setting, processFiles returns and every
\* valid file belongs to exactly one batch.  (The loop index is the only
\* state of the loop and has at most MaxProbeFiles values below n, so a loop
\* still running after MaxIter iterations never ends.)
C35_ProcessFilesTerminates ==
  probe.op = "batches" =>
    /\ probe.out.outcome = "returns"
    /\ \A f \in 0..(probe.n - 1) :
         Cardinality({k \in 1..Len(probe.out.batches) :
                        probe.out.batches[k][1] <= f /\ f < probe.out.batches[k][2]}) = 1

\* C36: two chunks that differ in repository, path or ordinal have different
\* identifier strings.
C36_ChunkIdsDistinct ==
  (probe.op = "ids"
     /\ <<probe.fc1.Repository, probe.fc1.FilePath, probe.i1>> #
        <<probe.fc2.Repository, probe.fc2.FilePath, probe.i2>>) =>
    probe.id1 # probe.id2

C38_OnlyDiscoveryAndUpsertAreFatal ==
  /\ retErr \in {"none", "discover", "upsert"}
  /\ retErr = "discover" => hst.discoverFailed
  /\ retErr = "upsert" => hst.upsertFailed
  /\ (retErr # "none" \/ result.Errors # <<>>) => ~result.Success
  /\ (pc = "done" /\ ~hst.discoverFailed /\ ~hst.upsertFailed) =>
       retErr = "none" /\ result.Success /\ result.Errors = <<>>

C38_Witness ==
  /\ pc = "done"
  /\ hst.chunkFailed # {}
  /\ hst.embedFailed # {}
  /\ retErr = "none"
  /\ result.Success
  /\ calls.upsert = 1

\* C39: for every change record and every allow and exclude list, filterFiles
\* keeps the record exactly when ValidateDocument returns true.
C39_FilterEqualsValidate ==
  probe.op = "validate" => (probe.kept <=> probe.valid)

====
